---------------------------- MODULE Spec2Model ----------------------------
(***************************************************************************)
(* CSQLite3 header shims of ZeeQL3.                                        *)
(*                                                                         *)
(* Each of the five CSQLite3Shim.h variants is kept as the list of its     *)
(* preprocessor directives (with the source line of each), and a small     *)
(* C-preprocessor interpreter (conditional stack, macro table, #include)   *)
(* runs a variant against the macros a toolchain predefines.  A run of the *)
(* model is a build host compiling a few translation units, each of which  *)
(* may #include any of the shims, any number of times.                     *)
(*                                                                         *)
(* Comments are removed before directives are recognised, so the block     *)
(* comment on lines 11-17 of xcode-macos/CSQLite3Shim.h contributes no     *)
(* directive.                                                              *)
(***************************************************************************)
EXTENDS Integers, Sequences, FiniteSets, TLC

VARIABLES host, toolchain, macros, shims, tried, status

vars == <<host, toolchain, macros, shims, tried, status>>

-----------------------------------------------------------------------------
(* Bounds *)

\* translation units compiled on the build host
NumTUs == 2
\* shim inclusions over the whole run
MaxIncludes == 2
\* largest __clang_major__ a toolchain predefines
MaxClang == 12

TUs == 1..NumTUs

-----------------------------------------------------------------------------
(* Paths *)

\* "/Applications/<app>/Contents/Developer/Platforms/<p>.platform/Developer/SDKs/<p>.sdk/usr/include/sqlite3.h"
SDKPath(app, platform) == [root |-> app, platform |-> platform]

\* "/usr/include/sqlite3.h"
UsrInclude == [root |-> "/usr/include", platform |-> "generic"]

NoPath == [root |-> "", platform |-> ""]

\* the installation a path lives in; a path exists when its installation does
Roots == {"Xcode-beta.app", "Xcode.app", "/usr/include"}

Exists(path, h) == path.root \in h

-----------------------------------------------------------------------------
(* Directives *)

NoCond == [kind |-> "none", n |-> 0]
\* defined(__APPLE__) && defined(__MACH__)
AppleMach == [kind |-> "apple_mach", n |-> 0]
\* __clang_major__ >= n
ClangGe(n) == [kind |-> "clang_ge", n |-> n]

D(line, op, name, cond, path) ==
    [line |-> line, op |-> op, name |-> name, cond |-> cond, path |-> path]

Ifndef(line, name)  == D(line, "ifndef", name, NoCond, NoPath)
Define(line, name)  == D(line, "define", name, NoCond, NoPath)
If(line, cond)      == D(line, "if", "", cond, NoPath)
Elif(line, cond)    == D(line, "elif", "", cond, NoPath)
\* cond holds whatever tokens follow the #else on its line
Else(line, cond)    == D(line, "else", "", cond, NoPath)
Endif(line)         == D(line, "endif", "", NoCond, NoPath)
Include(line, path) == D(line, "include", "", NoCond, path)

IosShim ==
    << Ifndef(1, "__CSQLITE3_SHIM_H__"),
       Define(2, "__CSQLITE3_SHIM_H__"),
       If(4, AppleMach),
       If(5, ClangGe(9)),
       Include(6, SDKPath("Xcode-beta.app", "iPhoneOS")),
       Else(7, NoCond),
       Include(8, SDKPath("Xcode.app", "iPhoneOS")),
       Endif(9),
       Else(10, NoCond),
       Include(11, UsrInclude),
       Endif(12),
       Endif(14) >>

MacosShimNoFallback ==
    << Ifndef(1, "__CSQLITE3_SHIM_H__"),
       Define(2, "__CSQLITE3_SHIM_H__"),
       If(4, AppleMach),
       If(5, ClangGe(10)),
       Include(6, SDKPath("Xcode-beta.app", "MacOSX")),
       Elif(7, ClangGe(9)),
       Include(8, SDKPath("Xcode.app", "MacOSX")),
       Else(9, NoCond),
       Include(10, SDKPath("Xcode.app", "MacOSX")),
       Endif(11),
       Else(12, NoCond),
       Include(13, UsrInclude),
       Endif(14),
       Endif(16) >>

MacosShim ==
    << Ifndef(1, "__CSQLITE3_SHIM_H__"),
       Define(2, "__CSQLITE3_SHIM_H__"),
       If(4, AppleMach),
       If(5, ClangGe(10)),
       Include(6, SDKPath("Xcode-beta.app", "MacOSX")),
       Elif(7, ClangGe(9)),
       Include(8, SDKPath("Xcode.app", "MacOSX")),
       Else(9, NoCond),
       Include(10, UsrInclude),
       Endif(11),
       Else(12, NoCond),
       Include(13, UsrInclude),
       Endif(14),
       Endif(16) >>

TvosSimulatorShimThreshold10 ==
    << Ifndef(1, "__CSQLITE3_SHIM_H__"),
       Define(2, "__CSQLITE3_SHIM_H__"),
       If(4, AppleMach),
       If(5, ClangGe(10)),
       Include(6, SDKPath("Xcode-beta.app", "AppleTVSimulator")),
       Else(7, NoCond),
       Include(8, SDKPath("Xcode.app", "AppleTVSimulator")),
       Endif(9),
       Else(10, NoCond),
       Include(11, UsrInclude),
       Endif(12),
       Endif(14) >>

TvosSimulatorShim ==
    << Ifndef(1, "__CSQLITE3_SHIM_H__"),
       Define(2, "__CSQLITE3_SHIM_H__"),
       If(4, AppleMach),
       If(5, ClangGe(11)),
       Include(6, SDKPath("Xcode-beta.app", "AppleTVSimulator")),
       Else(7, NoCond),
       Include(8, SDKPath("Xcode.app", "AppleTVSimulator")),
       Endif(9),
       Else(10, NoCond),
       Include(11, UsrInclude),
       Endif(12),
       Endif(14) >>

WatchosShimDesktopPath ==
    << Ifndef(1, "__CSQLITE3_SHIM_H__"),
       Define(2, "__CSQLITE3_SHIM_H__"),
       If(4, AppleMach),
       If(5, ClangGe(10)),
       Include(6, SDKPath("Xcode-beta.app", "WatchOS")),
       Else(7, NoCond),
       Include(8, SDKPath("Xcode.app", "MacOSX")),
       Endif(9),
       Else(10, NoCond),
       Include(11, UsrInclude),
       Endif(12),
       Endif(14) >>

WatchosShim ==
    << Ifndef(1, "__CSQLITE3_SHIM_H__"),
       Define(2, "__CSQLITE3_SHIM_H__"),
       If(4, AppleMach),
       If(5, ClangGe(10)),
       Include(6, SDKPath("Xcode-beta.app", "WatchOS")),
       Else(7, NoCond),
       Include(8, SDKPath("Xcode.app", "WatchOS")),
       Endif(9),
       Else(10, NoCond),
       Include(11, UsrInclude),
       Endif(12),
       Endif(14) >>

\* line 8 reads "#  else __clang_major__ >= 9"; the #endif of line 10 closes
\* the inner #if, the #else of line 18 belongs to the outer one
XcodeMacosShim ==
    << Ifndef(1, "__CSQLITE3_SHIM_H__"),
       Define(2, "__CSQLITE3_SHIM_H__"),
       If(4, AppleMach),
       If(6, ClangGe(10)),
       Include(7, SDKPath("Xcode-beta.app", "MacOSX")),
       Else(8, ClangGe(9)),
       Include(9, SDKPath("Xcode.app", "MacOSX")),
       Endif(10),
       Else(18, NoCond),
       Include(19, UsrInclude),
       Endif(20),
       Endif(22) >>

Variants == {"ios", "macos", "tvos-simulator", "watchos", "xcode-macos"}

\* the directory of a variant selects the file that is compiled
ShimFile(v) ==
    CASE v = "ios"            -> IosShim
      [] v = "macos"          -> MacosShim
      [] v = "tvos-simulator" -> TvosSimulatorShim
      [] v = "watchos"        -> WatchosShim
      [] v = "xcode-macos"    -> XcodeMacosShim

\* the paths literally listed in a variant's file
ListedPaths(v) ==
    { ShimFile(v)[i].path : i \in { j \in 1..Len(ShimFile(v)) : ShimFile(v)[j].op = "include" } }

\* the version numbers written in a variant's file
ListedThresholds(v) ==
    { ShimFile(v)[i].cond.n : i \in { j \in 1..Len(ShimFile(v)) : ShimFile(v)[j].cond.kind = "clang_ge" } }

-----------------------------------------------------------------------------
(* Toolchain: the macros predefined for every translation unit *)

\* __clang_major__ is absent (<<>>) or has one value (<<n>>)
ClangVersions == {<<>>} \cup { <<n>> : n \in 0..MaxClang }

Toolchains == [apple : BOOLEAN, mach : BOOLEAN, clang : ClangVersions]

Predefined(tc) ==
    (IF tc.apple THEN "__APPLE__" :> 1 ELSE <<>>) @@
    (IF tc.mach THEN "__MACH__" :> 1 ELSE <<>>) @@
    (IF tc.clang # <<>> THEN "__clang_major__" :> tc.clang[1] ELSE <<>>)

-----------------------------------------------------------------------------
(* Preprocessor *)

IsDefined(name, m) == name \in DOMAIN m

\* an identifier that is not a macro evaluates to 0 in #if
MacroValue(name, m) == IF IsDefined(name, m) THEN m[name] ELSE 0

EvalAppleOrMach(cond, m) ==
    CASE cond.kind = "apple_mach" -> IsDefined("__APPLE__", m) \/ IsDefined("__MACH__", m)
      [] cond.kind = "clang_ge"   -> MacroValue("__clang_major__", m) >= cond.n
      [] OTHER                    -> FALSE

EvalGreater(cond, m) ==
    CASE cond.kind = "apple_mach" -> IsDefined("__APPLE__", m) /\ IsDefined("__MACH__", m)
      [] cond.kind = "clang_ge"   -> MacroValue("__clang_major__", m) > cond.n
      [] OTHER                    -> FALSE

Eval(cond, m) ==
    CASE cond.kind = "apple_mach" -> IsDefined("__APPLE__", m) /\ IsDefined("__MACH__", m)
      [] cond.kind = "clang_ge"   -> MacroValue("__clang_major__", m) >= cond.n
      [] OTHER                    -> FALSE

\* st: [macros, stack, includes, fatal]; the innermost conditional is the
\* head of the stack
Active(st) == st.stack = <<>> \/ Head(st.stack).active

Push(st, holds) ==
    [st EXCEPT !.stack = <<[active |-> Active(st) /\ holds,
                            taken  |-> holds,
                            parent |-> Active(st)]>> \o @]

DoIfndef(st, d) == Push(st, ~IsDefined(d.name, st.macros))

\* the condition of a skipped group is not evaluated
DoIf(st, d) == Push(st, Active(st) /\ Eval(d.cond, st.macros))

DoElif(st, d) ==
    LET top   == Head(st.stack)
        holds == top.parent /\ ~top.taken /\ Eval(d.cond, st.macros)
    IN  [st EXCEPT !.stack = <<[active |-> holds,
                                taken  |-> top.taken \/ holds,
                                parent |-> top.parent]>> \o Tail(@)]

DoElseAsElif(st, d) ==
    IF d.cond.kind = "none"
    THEN LET top == Head(st.stack)
         IN  [st EXCEPT !.stack = <<[active |-> top.parent /\ ~top.taken,
                                     taken  |-> TRUE,
                                     parent |-> top.parent]>> \o Tail(@)]
    ELSE DoElif(st, d)

\* tokens after #else are diagnosed and ignored
DoElse(st, d) ==
    LET top == Head(st.stack)
    IN  [st EXCEPT !.stack = <<[active |-> top.parent /\ ~top.taken,
                                taken  |-> TRUE,
                                parent |-> top.parent]>> \o Tail(@)]

DoEndif(st, d) == [st EXCEPT !.stack = Tail(@)]

DoDefineNothing(st, d) == st

DoDefine(st, d) ==
    IF Active(st) THEN [st EXCEPT !.macros = (d.name :> 1) @@ @] ELSE st

DoIncludeSkipMissing(st, d, h) ==
    IF ~Active(st) THEN st
    ELSE IF Exists(d.path, h)
         THEN [st EXCEPT !.includes = Append(@, d.path)]
         ELSE st

\* a file that cannot be opened is a fatal error: preprocessing stops
DoInclude(st, d, h) ==
    IF ~Active(st) THEN st
    ELSE [st EXCEPT !.includes = Append(@, d.path),
                    !.fatal = ~Exists(d.path, h)]

Directive(st, d, h) ==
    CASE d.op = "ifndef"  -> DoIfndef(st, d)
      [] d.op = "define"  -> DoDefine(st, d)
      [] d.op = "if"      -> DoIf(st, d)
      [] d.op = "elif"    -> DoElif(st, d)
      [] d.op = "else"    -> DoElse(st, d)
      [] d.op = "endif"   -> DoEndif(st, d)
      [] d.op = "include" -> DoInclude(st, d, h)

RECURSIVE Run(_, _, _, _)
Run(file, i, st, h) ==
    IF i > Len(file) \/ st.fatal THEN st
    ELSE Run(file, i + 1, Directive(st, file[i], h), h)

\* one pass over a variant's shim, starting from macro table m
Preprocess(v, m, h) ==
    Run(ShimFile(v), 1, [macros |-> m, stack |-> <<>>, includes |-> <<>>, fatal |-> FALSE], h)

\* the paths a first inclusion of each variant selects under each toolchain
SelectionTable ==
    [v \in Variants |-> [a \in BOOLEAN |-> [m \in BOOLEAN |-> [c \in ClangVersions |->
        Preprocess(v, Predefined([apple |-> a, mach |-> m, clang |-> c]), Roots).includes]]]]

Selection(v, tc) == SelectionTable[v][tc.apple][tc.mach][tc.clang]

-----------------------------------------------------------------------------
(* Build host *)

Init ==
    /\ host \in SUBSET Roots
    /\ toolchain \in Toolchains
    /\ macros = [t \in TUs |-> Predefined(toolchain)]
    /\ shims = [t \in TUs |-> <<>>]
    /\ tried = [t \in TUs |-> <<>>]
    /\ status = [t \in TUs |-> "ok"]

RECURSIVE TotalIncludes(_)
TotalIncludes(n) == IF n = 0 THEN 0 ELSE Len(shims[n]) + TotalIncludes(n - 1)

IncludeShimSharedMacros(t, v) ==
    /\ status[t] = "ok"
    /\ TotalIncludes(NumTUs) < MaxIncludes
    /\ LET r == Preprocess(v, macros[t], host)
       IN  /\ macros' = [u \in TUs |-> r.macros]
           /\ shims' = [shims EXCEPT ![t] = Append(@, v)]
           /\ tried' = [tried EXCEPT ![t] = @ \o r.includes]
           /\ status' = [status EXCEPT ![t] = IF r.fatal THEN "failed" ELSE "ok"]
    /\ UNCHANGED <<host, toolchain>>

\* translation unit t reaches an #include of variant v's CSQLite3Shim.h
IncludeShim(t, v) ==
    /\ status[t] = "ok"
    /\ TotalIncludes(NumTUs) < MaxIncludes
    /\ LET r == Preprocess(v, macros[t], host)
       IN  /\ macros' = [macros EXCEPT ![t] = r.macros]
           /\ shims' = [shims EXCEPT ![t] = Append(@, v)]
           /\ tried' = [tried EXCEPT ![t] = @ \o r.includes]
           /\ status' = [status EXCEPT ![t] = IF r.fatal THEN "failed" ELSE "ok"]
    /\ UNCHANGED <<host, toolchain>>

Next == \E t \in TUs, v \in Variants : IncludeShim(t, v)

Spec == Init /\ [][Next]_vars

-----------------------------------------------------------------------------
(* Vocabulary of the properties *)

\* translation unit t has processed at least one shim
Resolved(t) == shims[t] # <<>>

\* the variant whose shim translation unit t included first
First(t) == shims[t][1]

AppleToolchain == toolchain.apple /\ toolchain.mach

\* the value "__clang_major__" has in an #if
ClangValue == IF toolchain.clang = <<>> THEN 0 ELSE toolchain.clang[1]

WithClang(c) == [toolchain EXCEPT !.clang = c]

\* the SDK platform directory each variant is written for
PlatformOf(v) ==
    CASE v = "ios"            -> "iPhoneOS"
      [] v = "macos"          -> "MacOSX"
      [] v = "tvos-simulator" -> "AppleTVSimulator"
      [] v = "watchos"        -> "WatchOS"
      [] v = "xcode-macos"    -> "MacOSX"

BetaPath(v) == SDKPath("Xcode-beta.app", PlatformOf(v))

XcodePath(v) == SDKPath("Xcode.app", PlatformOf(v))

\* the version from which a variant is said to select Xcode-beta.app
BetaThreshold(v) ==
    CASE v = "ios"            -> 9
      [] v = "macos"          -> 10
      [] v = "tvos-simulator" -> 11
      [] v = "watchos"        -> 10
      [] v = "xcode-macos"    -> 10

BelowEveryThreshold(v) == \A n \in ListedThresholds(v) : ClangValue < n

\* the platform family a path names: an SDK platform directory or "generic"
Family(path) == path.platform

-----------------------------------------------------------------------------
(* C1 *)

\* C1: whatever the variant, the Apple flags and the compiler version, the
\* first pass over a shim activates exactly one #include, and its path is
\* one of the paths listed in that variant's file.
C1_ExactlyOneListedPath ==
    \A t \in TUs : Resolved(t) =>
        /\ Len(tried[t]) = 1
        /\ tried[t][1] \in ListedPaths(First(t))
        /\ Len(Selection(First(t), toolchain)) = 1

C1_Witness ==
    \E t \in TUs :
        /\ Resolved(t) /\ First(t) = "xcode-macos"
        /\ AppleToolchain /\ ClangValue < 9
        /\ tried[t] = <<XcodePath("xcode-macos")>>

-----------------------------------------------------------------------------
(* C2 *)

\* C2: on an Apple toolchain, a compiler version below every threshold
\* written in the variant's file (an undefined __clang_major__ counts as 0)
\* selects the Xcode.app SDK path on ios, tvos-simulator, watchos and
\* xcode-macos, and /usr/include/sqlite3.h on macos.
C2_FallbackBelowThresholds ==
    \A t \in TUs :
        (Resolved(t) /\ AppleToolchain /\ BelowEveryThreshold(First(t))) =>
            tried[t] = <<IF First(t) = "macos" THEN UsrInclude ELSE XcodePath(First(t))>>

C2_Witness ==
    \E t \in TUs :
        /\ Resolved(t) /\ First(t) = "macos"
        /\ AppleToolchain /\ toolchain.clang = <<>>
        /\ tried[t] = <<UsrInclude>>

-----------------------------------------------------------------------------
(* C3 *)

\* C3 as stated: for any other compiler version, with the variant and the
\* Apple flags unchanged, the selected path names the same platform family;
\* an SDK path never becomes /usr/include/sqlite3.h or back.
C3_SameFamilyForEveryVersion ==
    \A t \in TUs : Resolved(t) =>
        \A c \in ClangVersions :
            Family(Selection(First(t), WithClang(c))[1]) = Family(tried[t][1])

\* C3 amended: for any other compiler version, the selected path is the
\* generic /usr/include/sqlite3.h or lies in the variant's own SDK platform
\* directory, never in another platform's; on every variant but macos the
\* family is the same for all versions, and macos changes between generic
\* (below 9) and MacOSX (9 and above) on an Apple toolchain.
C3_NeverAnotherPlatform ==
    \A t \in TUs : Resolved(t) =>
        \A c \in ClangVersions :
            LET other == Family(Selection(First(t), WithClang(c))[1])
                mine  == Family(tried[t][1])
            IN  /\ mine \in {PlatformOf(First(t)), "generic"}
                /\ other \in {PlatformOf(First(t)), "generic"}
                /\ (First(t) # "macos" \/ ~AppleToolchain) => other = mine
                /\ (First(t) = "macos" /\ AppleToolchain) =>
                       /\ mine = (IF ClangValue < 9 THEN "generic" ELSE "MacOSX")
                       /\ other = (IF c = <<>> \/ c[1] < 9 THEN "generic" ELSE "MacOSX")

C3_Witness ==
    \E t \in TUs :
        /\ Resolved(t) /\ First(t) = "macos"
        /\ AppleToolchain /\ ClangValue = 8
        /\ Family(tried[t][1]) = "generic"
        /\ Family(Selection("macos", WithClang(<<9>>))[1]) = "MacOSX"

-----------------------------------------------------------------------------
(* C4 *)

\* C4: on tvos-simulator with an Apple toolchain the Xcode-beta
\* AppleTVSimulator path is selected exactly when the compiler version is at
\* least 11, and the Xcode.app AppleTVSimulator path otherwise (so 11 gives
\* Xcode-beta and 9 gives Xcode.app).
C4_TvosSimulatorThreshold ==
    \A t \in TUs :
        (Resolved(t) /\ First(t) = "tvos-simulator" /\ AppleToolchain) =>
            /\ (ClangValue >= 11) <=>
                   (tried[t] = <<SDKPath("Xcode-beta.app", "AppleTVSimulator")>>)
            /\ (ClangValue < 11) <=>
                   (tried[t] = <<SDKPath("Xcode.app", "AppleTVSimulator")>>)

C4_Witness ==
    \E t \in TUs :
        /\ Resolved(t) /\ First(t) = "tvos-simulator"
        /\ AppleToolchain /\ ClangValue = 11
        /\ tried[t] = <<SDKPath("Xcode-beta.app", "AppleTVSimulator")>>
        /\ Selection("tvos-simulator", WithClang(<<9>>))
               = <<SDKPath("Xcode.app", "AppleTVSimulator")>>

-----------------------------------------------------------------------------
(* C5 *)

\* C5: when __APPLE__ or __MACH__ is not defined, every variant selects
\* /usr/include/sqlite3.h, whatever the compiler version is.
C5_NonAppleSelectsUsrInclude ==
    \A t \in TUs :
        (Resolved(t) /\ ~AppleToolchain) =>
            /\ tried[t] = <<UsrInclude>>
            /\ \A c \in ClangVersions : Selection(First(t), WithClang(c)) = <<UsrInclude>>

C5_Witness ==
    \E t \in TUs :
        /\ Resolved(t) /\ First(t) = "ios"
        /\ toolchain.apple /\ ~toolchain.mach /\ ClangValue = MaxClang
        /\ tried[t] = <<UsrInclude>>

-----------------------------------------------------------------------------
(* C6 *)

\* C6: a translation unit that included a shim has failed exactly when the
\* one selected path is missing on the host; no second path is ever tried,
\* also when another path listed in the same shim is present.
C6_FailsIffSelectedPathMissing ==
    \A t \in TUs : Resolved(t) =>
        /\ Len(tried[t]) = 1
        /\ (status[t] = "ok") <=> Exists(tried[t][1], host)
        /\ (status[t] = "failed") <=> ~Exists(tried[t][1], host)

C6_Witness ==
    \E t \in TUs :
        /\ Resolved(t) /\ First(t) = "watchos"
        /\ status[t] = "failed"
        /\ tried[t] = <<BetaPath("watchos")>>
        /\ \A p \in ListedPaths("watchos") \ {BetaPath("watchos")} : Exists(p, host)

-----------------------------------------------------------------------------
(* C7 *)

-----------------------------------------------------------------------------
(* C8 *)

\* C8: on an Apple toolchain a variant selects its Xcode-beta.app path
\* exactly when the compiler version is at least its threshold (ios 9,
\* macos 10, watchos 10, xcode-macos 10, tvos-simulator 11), and every
\* higher version selects it too.
C8_BetaIffAtLeastThreshold ==
    \A t \in TUs :
        (Resolved(t) /\ AppleToolchain) =>
            /\ (tried[t] = <<BetaPath(First(t))>>) <=> (ClangValue >= BetaThreshold(First(t)))
            /\ (tried[t] = <<BetaPath(First(t))>>) =>
                   \A n \in 0..MaxClang :
                       n > ClangValue => Selection(First(t), WithClang(<<n>>)) = <<BetaPath(First(t))>>

C8_Witness ==
    \E t \in TUs :
        /\ Resolved(t) /\ First(t) = "ios"
        /\ AppleToolchain /\ ClangValue = 9
        /\ tried[t] = <<BetaPath("ios")>>

-----------------------------------------------------------------------------
(* C9 *)

\* C9: once a translation unit has included a shim, the guard macro is
\* defined and a later inclusion of any variant's shim activates no
\* #include: the selected path stays the one of the first shim.
C9_LaterInclusionsSelectNothing ==
    [][\A t \in TUs :
           /\ Resolved(t) => (tried'[t] = tried[t] /\ Len(tried[t]) = 1)
           /\ Resolved(t)' => (/\ IsDefined("__CSQLITE3_SHIM_H__", macros'[t])
                               /\ tried'[t] = Selection(First(t)', toolchain))]_vars

C9_Witness ==
    \E t \in TUs :
        /\ Len(shims[t]) = 2
        /\ shims[t][1] = "watchos" /\ shims[t][2] = "ios"
        /\ AppleToolchain /\ status[t] = "ok"
        /\ tried[t] = <<Selection("watchos", toolchain)[1]>>

-----------------------------------------------------------------------------
(* C10 *)

\* C10: under one toolchain, a translation unit resolving macos and one
\* resolving xcode-macos select the same path unless the toolchain is Apple
\* with a compiler version below 9; there macos selects
\* /usr/include/sqlite3.h and xcode-macos the Xcode.app MacOSX SDK path.
C10_DesktopVariantsAgreeFrom9 ==
    \A t, u \in TUs :
        (Resolved(t) /\ Resolved(u) /\ First(t) = "macos" /\ First(u) = "xcode-macos") =>
            /\ (tried[t] = tried[u]) <=> ~(AppleToolchain /\ ClangValue < 9)
            /\ (AppleToolchain /\ ClangValue < 9) =>
                   /\ tried[t] = <<UsrInclude>>
                   /\ tried[u] = <<SDKPath("Xcode.app", "MacOSX")>>

C10_Witness ==
    \E t, u \in TUs :
        /\ Resolved(t) /\ First(t) = "macos"
        /\ Resolved(u) /\ First(u) = "xcode-macos"
        /\ AppleToolchain /\ ClangValue = 8
        /\ tried[t] = <<UsrInclude>>
        /\ tried[u] = <<SDKPath("Xcode.app", "MacOSX")>>

=============================================================================
